---------------------------- MODULE Spec2Model ----------------------------
(***************************************************************************)
(* A model of the Skilljar lesson downloader                                *)
(* (src/skilljar_lesson_downloader.py).                                     *)
(*                                                                          *)
(* Python strings that the program inspects (markup, URLs, content types,  *)
(* file names) are sequences of one-character strings, so that the string  *)
(* operations of the code (re.findall, str.split, str.startswith, `in`)     *)
(* are computed and not assumed.                                            *)
(***************************************************************************)
EXTENDS Integers, Sequences, FiniteSets, TLC

(***************************************************************************)
(* Bounds of the model.                                                     *)
(***************************************************************************)
MaxElems == 2
MaxCourses == 2
MaxLessons == 2
MaxPages == 2
MaxItems == 2
MaxEndpointPages == 3
MaxPerPage == 2

(***************************************************************************)
(* Characters and string helpers.                                           *)
(***************************************************************************)
Lower(c) ==
    CASE c = "A" -> "a" [] c = "B" -> "b" [] c = "C" -> "c" [] c = "D" -> "d"
      [] c = "E" -> "e" [] c = "F" -> "f" [] c = "G" -> "g" [] c = "H" -> "h"
      [] c = "I" -> "i" [] c = "J" -> "j" [] c = "K" -> "k" [] c = "L" -> "l"
      [] c = "M" -> "m" [] c = "N" -> "n" [] c = "O" -> "o" [] c = "P" -> "p"
      [] c = "Q" -> "q" [] c = "R" -> "r" [] c = "S" -> "s" [] c = "T" -> "t"
      [] c = "U" -> "u" [] c = "V" -> "v" [] c = "W" -> "w" [] c = "X" -> "x"
      [] c = "Y" -> "y" [] c = "Z" -> "z"
      [] OTHER -> c

LowerStr(s) == [i \in 1..Len(s) |-> Lower(s[i])]

\* s[a..b], empty when a > b
Slice(s, a, b) == IF a > b THEN << >> ELSE SubSeq(s, a, b)

\* str.startswith
StartsWith(s, pre) ==
    /\ Len(pre) <= Len(s)
    /\ SubSeq(s, 1, Len(pre)) = pre

\* str.endswith
EndsWith(s, suf) ==
    /\ Len(suf) <= Len(s)
    /\ Slice(s, Len(s) - Len(suf) + 1, Len(s)) = suf

\* `sub in s` for strings
Contains(s, sub) ==
    \E i \in 1..(Len(s) - Len(sub) + 1) : SubSeq(s, i, i + Len(sub) - 1) = sub

\* the literal lit stands at position p of s, letter case ignored
LitAt(s, p, lit) ==
    /\ p + Len(lit) - 1 <= Len(s)
    /\ \A i \in 1..Len(lit) : Lower(s[p + i - 1]) = Lower(lit[i])

\* the position of the last occurrence of character c in s, 0 when absent
LastIndex(s, c) ==
    IF \E i \in 1..Len(s) : s[i] = c
    THEN CHOOSE i \in 1..Len(s) : s[i] = c /\ \A m \in (i+1)..Len(s) : s[m] # c
    ELSE 0

\* s.split(c)[-1]
LastPiece(s, c) == Slice(s, LastIndex(s, c) + 1, Len(s))

\* the first position >= p of s holding a character of set cs, Len(s)+1 when none
FirstOf(s, p, cs) ==
    IF \E i \in p..Len(s) : s[i] \in cs
    THEN CHOOSE i \in p..Len(s) : s[i] \in cs /\ \A m \in p..(i-1) : s[m] \notin cs
    ELSE Len(s) + 1

RECURSIVE Concat(_)
Concat(ss) == IF ss = << >> THEN << >> ELSE Head(ss) \o Concat(Tail(ss))

\* str(n) for n >= 0
Digit(d) == CASE d = 0 -> "0" [] d = 1 -> "1" [] d = 2 -> "2" [] d = 3 -> "3"
              [] d = 4 -> "4" [] d = 5 -> "5" [] d = 6 -> "6" [] d = 7 -> "7"
              [] d = 8 -> "8" [] OTHER -> "9"
RECURSIVE IntToStr(_)
IntToStr(n) == IF n < 10 THEN << Digit(n) >> ELSE IntToStr(n \div 10) \o << Digit(n % 10) >>

(***************************************************************************)
(* Words of the program text.                                               *)
(***************************************************************************)
W_http   == << "h","t","t","p",":","/","/" >>
W_https  == << "h","t","t","p","s",":","/","/" >>
W_src    == << "s","r","c","=" >>
W_href   == << "h","r","e","f","=" >>
Quotes   == { "\"", "'" }

T_img    == << "<","i","m","g" >>
T_video  == << "<","v","i","d","e","o" >>
T_audio  == << "<","a","u","d","i","o" >>
T_source == << "<","s","o","u","r","c","e" >>
T_embed  == << "<","e","m","b","e","d" >>
T_iframe == << "<","i","f","r","a","m","e" >>
T_a      == << "<","a" >>

DocExts == { << "p","d","f" >>, << "d","o","c" >>, << "d","o","c","x" >>,
             << "x","l","s" >>, << "x","l","s","x" >>, << "p","p","t" >>,
             << "p","p","t","x" >>, << "z","i","p" >>, << "r","a","r" >> }

(***************************************************************************)
(* _extract_urls_from_html: the regular expressions.  Every pattern has    *)
(* the shape  TAG [^>]+ ATTR= ["'] ( [^"']+ ) ["']  and the anchor pattern  *)
(* also requires the group to end in \.(pdf|doc|...).                       *)
(***************************************************************************)
patterns == << [tag |-> T_img,    attr |-> W_src,  exts |-> {}],
               [tag |-> T_video,  attr |-> W_src,  exts |-> {}],
               [tag |-> T_audio,  attr |-> W_src,  exts |-> {}],
               [tag |-> T_source, attr |-> W_src,  exts |-> {}],
               [tag |-> T_embed,  attr |-> W_src,  exts |-> {}],
               [tag |-> T_iframe, attr |-> W_src,  exts |-> {}],
               [tag |-> T_a,      attr |-> W_href, exts |-> DocExts] >>

\* [^"']+\.(?:pdf|...) : one character at least, a dot, an extension
GroupOk(g, exts) ==
    /\ Len(g) >= 1
    /\ exts # {} =>
         \E e \in exts : /\ Len(g) >= Len(e) + 2
                         /\ LowerStr(Slice(g, Len(g) - Len(e), Len(g))) = << "." >> \o e

\* the rest of a pattern after [^>]+ matches at position q of s
TailAt(s, q, pat) ==
    LET o == q + Len(pat.attr)          \* the opening quote
        c == FirstOf(s, o + 1, Quotes)  \* the closing quote
    IN /\ LitAt(s, q, pat.attr)
       /\ o <= Len(s) /\ s[o] \in Quotes
       /\ c <= Len(s)
       /\ GroupOk(Slice(s, o + 1, c - 1), pat.exts)

\* the positions where [^>]+ may end when the match starts at p
TailStarts(s, p, pat) ==
    LET q0 == p + Len(pat.tag)
        gt == FirstOf(s, q0, { ">" })
    IN { q \in (q0 + 1)..gt : TailAt(s, q, pat) }

\* re.match of pat at position p: << >> or << group, position after the match >>
MatchAt(s, p, pat) ==
    IF ~LitAt(s, p, pat.tag) THEN << >>
    ELSE LET starts == TailStarts(s, p, pat)
         IN IF starts = {} THEN << >>
            ELSE LET q == CHOOSE x \in starts : \A y \in starts : y <= x   \* greedy
                     o == q + Len(pat.attr)
                     c == FirstOf(s, o + 1, Quotes)
                 IN << Slice(s, o + 1, c - 1), c + 1 >>

\* re.findall(pat, s, re.IGNORECASE) from position p on: the leftmost match,
\* then the search goes on after it
RECURSIVE FindAll(_, _, _)
FindAll(s, p, pat) ==
    LET found == { x \in p..Len(s) : MatchAt(s, x, pat) # << >> }
    IN IF found = {} THEN << >>
       ELSE LET x == CHOOSE y \in found : \A z \in found : y <= z
                m == MatchAt(s, x, pat)
            IN << m[1] >> \o FindAll(s, m[2], pat)

IsAbsolute(url) == StartsWith(url, W_http) \/ StartsWith(url, W_https)

\* the filter loop of lines 145-148
RECURSIVE FilterValid(_)
FilterValid(us) ==
    IF us = << >> THEN << >>
    ELSE (IF IsAbsolute(Head(us)) THEN << Head(us) >> ELSE << >>) \o FilterValid(Tail(us))

RECURSIVE AllMatches(_, _)
AllMatches(s, i) ==
    IF i > Len(patterns) THEN << >>
    ELSE FindAll(s, 1, patterns[i]) \o AllMatches(s, i + 1)

_extract_urls_from_html(html_content) ==
    IF html_content = << >> THEN << >>
    ELSE FilterValid(AllMatches(html_content, 1))

(***************************************************************************)
(* Markup given to _extract_urls_from_html: a document is the rendering of *)
(* a sequence of elements  <tag name="value" ...>.                          *)
(***************************************************************************)
N_src     == << "s","r","c" >>
N_href    == << "h","r","e","f" >>
N_datasrc == << "d","a","t","a","-","s","r","c" >>

Attr(n, v) == [name |-> n, value |-> v]
Elem(t, as) == [tag |-> t, attrs |-> as]

Elements ==
    { Elem(<< "i","m","g" >>, << Attr(N_src, W_https \o << "a","/","1",".","p","n","g" >>) >>),
      Elem(<< "i","m","g" >>, << Attr(N_src, << "/","l",".","p","n","g" >>) >>),
      Elem(<< "I","M","G" >>, << Attr(<< "S","R","C" >>, W_https \o << "a","/","2",".","p","n","g" >>) >>),
      Elem(<< "i","m","g" >>, << Attr(N_src, W_https \o << "a","/","s",".","g","i","f" >>),
                                 Attr(N_datasrc, W_https \o << "b","/","3",".","p","n","g" >>) >>),
      Elem(<< "v","i","d","e","o" >>, << Attr(N_src, W_http \o << "a","/","v",".","m","p","4" >>) >>),
      Elem(<< "a","u","d","i","o" >>, << Attr(N_src, W_https \o << "a","/","o",".","o","g","g" >>) >>),
      Elem(<< "s","o","u","r","c","e" >>, << Attr(N_src, W_https \o << "a","/","s",".","w","e","b","m" >>) >>),
      Elem(<< "e","m","b","e","d" >>, << Attr(N_src, W_https \o << "a","/","e",".","s","w","f" >>) >>),
      Elem(<< "i","f","r","a","m","e" >>, << Attr(N_src, << "/","/","a","/","f" >>) >>),
      Elem(<< "i","f","r","a","m","e" >>, << Attr(N_src, W_https \o << "a","/","f" >>) >>),
      Elem(<< "a" >>, << Attr(N_href, W_https \o << "a","/","d",".","p","d","f" >>) >>),
      Elem(<< "a" >>, << Attr(N_href, W_https \o << "a","/","D",".","P","D","F" >>) >>),
      Elem(<< "a" >>, << Attr(N_href, W_https \o << "a","/","p",".","h","t","m","l" >>) >>),
      Elem(<< "a","r","e","a" >>, << Attr(N_href, W_https \o << "a","/","m",".","p","d","f" >>) >>) }

RECURSIVE RenderAttrs(_)
RenderAttrs(as) ==
    IF as = << >> THEN << >>
    ELSE << " " >> \o Head(as).name \o << "=", "\"" >> \o Head(as).value \o << "\"" >>
         \o RenderAttrs(Tail(as))

Render(e) == << "<" >> \o e.tag \o RenderAttrs(e.attrs) \o << ">" >>

RECURSIVE RenderAll(_)
RenderAll(es) == IF es = << >> THEN << >> ELSE Render(Head(es)) \o RenderAll(Tail(es))

\* sequences over S of length at most n
SeqsUpTo(S, n) == UNION { [1..m -> S] : m \in 0..n }

Documents == SeqsUpTo(Elements, MaxElems)

(***************************************************************************)
(* _download_file: the name of the written file.                            *)
(***************************************************************************)
X_mp4 == << ".","m","p","4" >>
X_pdf == << ".","p","d","f" >>
X_jpg == << ".","j","p","g" >>
W_video == << "v","i","d","e","o" >>
W_pdf   == << "p","d","f" >>
W_image == << "i","m","a","g","e" >>

\* a response: fail is "none", "request" (the GET or raise_for_status raised,
\* nothing was opened) or "write" (the file was opened, then a chunk failed)
Response(f, h, ct) == [fail |-> f, has_ctype |-> h, ctype |-> ct]

\* lines 216-226
FileExtension(url, resp) ==
    LET last == LastPiece(url, "/")
        content_type == LowerStr(resp.ctype)
    IN IF \E i \in 1..Len(last) : last[i] = "."
       THEN << "." >> \o LastPiece(last, ".")
       ELSE IF resp.has_ctype
            THEN IF Contains(content_type, W_video) THEN X_mp4
                 ELSE IF Contains(content_type, W_pdf) THEN X_pdf
                 ELSE IF Contains(content_type, W_image) THEN X_jpg
                 ELSE << >>
            ELSE << >>

\* lines 214-231
FileName(url, filename_prefix, use_extension, resp) ==
    IF use_extension THEN filename_prefix \o FileExtension(url, resp)
    ELSE filename_prefix

\* _download_file without the except clause of line 241
_download_file_raising(url, filename_prefix, use_extension, resp) ==
    [ raised   |-> resp.fail # "none",
      opened   |-> resp.fail # "request",
      complete |-> resp.fail = "none",
      filename |-> FileName(url, filename_prefix, use_extension, resp) ]

\* lines 207-242: what the call leaves behind
\*   raised: an exception leaves the call; line 241 catches every one
\*   opened: the file was created (open(filepath, 'wb'))
\*   complete: every chunk was written
_download_file(url, filename_prefix, use_extension, resp) ==
    [ raised   |-> FALSE,
      opened   |-> resp.fail # "request",
      complete |-> resp.fail = "none",
      filename |-> FileName(url, filename_prefix, use_extension, resp) ]

(***************************************************************************)
(* urllib.parse.urlparse and pathlib.Path(...).name, for absolute http(s)  *)
(* URLs.                                                                    *)
(***************************************************************************)
SchemeLen(url) == IF StartsWith(url, W_https) THEN Len(W_https)
                  ELSE IF StartsWith(url, W_http) THEN Len(W_http) ELSE 0

\* the network location: up to the first of / ? #
UrlNetloc(url) ==
    LET b == SchemeLen(url) + 1
    IN IF SchemeLen(url) = 0 THEN << >>
       ELSE Slice(url, b, FirstOf(url, b, { "/", "?", "#" }) - 1)

\* urlsplit raises ValueError("Invalid IPv6 URL") on an unbalanced bracket
UrlParseFails(url) ==
    LET n == UrlNetloc(url)
    IN (\E i \in 1..Len(n) : n[i] = "[") # (\E i \in 1..Len(n) : n[i] = "]")

\* the path: from the end of the netloc to the first of ? #, its last
\* segment cut at ';' (urlparse's params)
UrlPath(url) ==
    LET b == SchemeLen(url) + Len(UrlNetloc(url)) + 1
        raw == Slice(url, b, FirstOf(url, b, { "?", "#" }) - 1)
        semi == FirstOf(raw, LastIndex(raw, "/") + 1, { ";" })
    IN Slice(raw, 1, semi - 1)

\* Path(path).name: the last segment that is neither empty nor "."
RECURSIVE PathName(_)
PathName(path) ==
    IF path = << >> THEN << >>
    ELSE LET last == LastPiece(path, "/")
         IN IF last = << >> \/ last = << "." >>
            THEN PathName(Slice(path, 1, LastIndex(path, "/") - 1))
            ELSE last


(***************************************************************************)
(* The data the remote API serves.                                          *)
(***************************************************************************)
CourseIds == { "c1", "c2" }

W_title == << "I","n",":"," ","1","/","2","?"," " >>

\* the i-th lesson record a listing returns; every second one has no title
LessonAt(i) == [id |-> i, has_title |-> (i % 2 = 1), title |-> W_title]

Item(ks, url, file_url, html) ==
    [keys |-> ks, url |-> url, file_url |-> file_url, content_html |-> html]

U_a1  == W_https \o << "a","/","1",".","p","n","g" >>
U_b1  == W_https \o << "b","/","1",".","p","n","g" >>
U_c1  == W_https \o << "c","/","1",".","p","n","g" >>
U_av  == W_https \o << "a","/","v" >>
U_bad == W_http \o << "[","/","x",".","p","n","g" >>

Img(url) == Elem(<< "i","m","g" >>, << Attr(N_src, url) >>)

\* the items of the course-level runs: one embedded image, or one direct URL
PoolWide ==
    << Item({ "content_html" }, << >>, << >>, RenderAll(<< Img(U_a1) >>)),
       Item({ "url" }, U_av, << >>, << >>) >>

\* the items of the lesson-level runs: direct URLs and embedded assets, the
\* same basename under several hosts, a URL that urlparse rejects
PoolDeep ==
    << Item({ "url", "file_url", "content_html" }, U_av, U_a1,
            RenderAll(<< Img(U_a1), Img(U_b1) >>)),
       Item({ "content_html" }, << >>, << >>, RenderAll(<< Img(U_bad), Img(U_c1) >>)),
       Item({ "file_url" }, << >>, U_a1, << >>) >>

ItemAt(pool, i) == pool[((i - 1) % Len(pool)) + 1]

\* content_item.get(key)
Get(item, key) == IF key \in item.keys THEN item[key] ELSE << >>

C_png   == << "i","m","a","g","e","/","p","n","g" >>
C_PNG   == << "I","m","a","g","e","/","P","N","G" >>
C_mp4   == << "v","i","d","e","o","/","m","p","4" >>
C_pdf   == << "a","p","p","l","i","c","a","t","i","o","n","/","p","d","f" >>
C_html  == << "t","e","x","t","/","h","t","m","l" >>

Responses ==
    { Response(f, TRUE, ct) : f \in { "none", "request", "write" },
                              ct \in { C_png, C_PNG, C_mp4, C_pdf, C_html } }
    \cup { Response(f, FALSE, << >>) : f \in { "none", "request", "write" } }

\* the responses the runs of download_courses draw from: failures of the
\* kinds `fails`; the content type is read only when the extension is inferred
RunResponses(use_extension, fails) ==
    { r \in Responses :
        /\ r.fail \in fails
        /\ r.has_ctype => r.ctype = C_png
        /\ r.has_ctype => use_extension /\ r.fail = "none" }

(***************************************************************************)
(* State.                                                                   *)
(***************************************************************************)
VARIABLES
    pc,             \* where the run stands
    course_ids,     \* download_courses: the argument
    ci,             \* download_courses: index of the current course (1-based)
    lessons,        \* download_courses: lessons of the current course
    li,             \* download_courses: index of the current lesson (1-based)
    page,           \* _get_paginated_results: page
    all_results,    \* _get_paginated_results: all_results
    content_items,  \* download_lesson_content: content_items
    k,              \* download_lesson_content: position of the first loop (1-based)
    j,              \* download_lesson_content: position of the second loop (1-based)
    urls,           \* download_lesson_content: urls of item j
    u,              \* download_lesson_content: position in urls (1-based)
    asset_counter,  \* download_lesson_content: asset_counter
    dirs,           \* the output tree: directories
    files,          \* the output tree: files
    trace,          \* history: requests, writes and messages, in order
    lim,            \* the sizes of the data served in this run
    endpoint,       \* the pages a listing endpoint serves (pagination runs)
    html_elems,     \* the elements of the markup (extraction runs)
    call            \* the arguments and response of one _download_file call

vars == << pc, course_ids, ci, lessons, li, page, all_results, content_items,
           k, j, urls, u, asset_counter, dirs, files, trace, lim, endpoint,
           html_elems, call >>

NoCall == [url |-> << >>, filename_prefix |-> << >>, use_extension |-> FALSE,
           resp |-> Response("none", FALSE, << >>)]


(***************************************************************************)
(* The output tree.                                                         *)
(***************************************************************************)
F_metadata == << "l","e","s","s","o","n","_","m","e","t","a","d","a","t","a",".","j","s","o","n" >>
F_content_items == << "c","o","n","t","e","n","t","_","i","t","e","m","s",".","j","s","o","n" >>
P_content == << "c","o","n","t","e","n","t","_" >>
P_asset   == << "a","s","s","e","t","_" >>
P_lesson  == << "L","e","s","s","o","n","_" >>

AlNum == { "a","b","c","d","e","f","g","h","i","j","k","l","m","n","o","p","q","r","s","t","u","v","w","x","y","z",
           "A","B","C","D","E","F","G","H","I","J","K","L","M","N","O","P","Q","R","S","T","U","V","W","X","Y","Z",
           "0","1","2","3","4","5","6","7","8","9" }

RECURSIVE KeepSafe(_)
KeepSafe(s) ==
    IF s = << >> THEN << >>
    ELSE (IF Head(s) \in AlNum \cup { " ", "-", "_" } THEN << Head(s) >> ELSE << >>)
         \o KeepSafe(Tail(s))

RECURSIVE RStrip(_)
RStrip(s) ==
    IF s # << >> /\ s[Len(s)] = " " THEN RStrip(SubSeq(s, 1, Len(s) - 1)) ELSE s

\* lines 154-159: the name of the lesson's directory
LessonDirName(lesson) ==
    LET lesson_id == IntToStr(lesson.id)
        lesson_title == IF lesson.has_title THEN lesson.title ELSE P_lesson \o lesson_id
        safe_title == RStrip(KeepSafe(lesson_title))
    IN safe_title \o << "_" >> \o lesson_id

\* an entry of the history: what was done (op), for which course and lesson
\* (course, ci, li, dir), at which position of a loop (i, u), whether it
\* went well (ok) and the name it was about
Ev(op, i, n, ok, name) ==
    [op |-> op,
     course |-> IF ci \in DOMAIN course_ids THEN course_ids[ci] ELSE "",
     ci |-> ci, li |-> li,
     dir |-> IF li \in DOMAIN lessons THEN LessonDirName(lessons[li]) ELSE << >>,
     i |-> i, u |-> n, ok |-> ok, name |-> name]

\* a course directory has the empty lesson part
Dir(course, lesson_dir) == [course |-> course, dir |-> lesson_dir]

File(course, lesson_dir, name, complete) ==
    [course |-> course, dir |-> lesson_dir, name |-> name, complete |-> complete]

\* open(path, 'w') and the writes that follow: the path's earlier content is gone
WriteFile(fs, f) ==
    { g \in fs : ~(g.course = f.course /\ g.dir = f.dir /\ g.name = f.name) } \cup { f }

(***************************************************************************)
(* _get_paginated_results: one pass of the loop on the body `data` of a    *)
(* response.  fmt "results" is {'results': items, 'next': ...}, "list" is a *)
(* bare list, "object" any other body, which then is the only result.       *)
(***************************************************************************)
Page(fmt, items, next) == [fmt |-> fmt, items |-> items, next |-> next]

PageResults(data) == data.items

HasNext(data) == data.fmt = "results" /\ data.next

\* line 86 without `or not results`
PageStepIgnoresEmpty(all, data) ==
    [all_results |-> all \o PageResults(data), more |-> HasNext(data)]

\* lines 84-89
PageStep(all, data) ==
    [all_results |-> all \o PageResults(data),
     more |-> ~(~HasNext(data) \/ PageResults(data) = << >>)]

FailedPage == [ok |-> FALSE, data |-> Page("results", << >>, FALSE)]

\* the bodies a page request may get when `have` results are gathered and the
\* listing holds the records `all`
PageResponses(pg, pages, have, all) ==
    { FailedPage } \cup
    { [ok |-> TRUE, data |-> Page(fmt, [x \in 1..n |-> all[have + x]], next)] :
        << fmt, n, next >> \in
          { t \in { "results", "list", "object" } \X (0..(Len(all) - have)) \X BOOLEAN :
              /\ t[1] = "object" => t[2] = 1
              /\ t[1] # "results" => ~t[3]
              /\ pg >= pages => ~t[3] } }

(***************************************************************************)
(* download_courses, lines 244-274.                                         *)
(***************************************************************************)
course_id == course_ids[ci]
lesson == lessons[li]
lesson_dir == LessonDirName(lesson)

\* download_courses without its try: the first error ends the run
ExceptCourseAborts(events) ==
    /\ trace' = trace \o events \o << Ev("error_processing_course", 0, 0, FALSE, << >>) >>
    /\ ci' = ci
    /\ pc' = "done"

\* download_courses going back to the course that failed
ExceptCourseRetries(events) ==
    /\ trace' = trace \o events \o << Ev("error_processing_course", 0, 0, FALSE, << >>) >>
    /\ ci' = ci
    /\ pc' = "courses"

\* the except clause of lines 272-274; the loop goes on with the next course
ExceptCourse(events) ==
    /\ trace' = trace \o events \o << Ev("error_processing_course", 0, 0, FALSE, << >>) >>
    /\ ci' = ci + 1
    /\ pc' = "courses"

\* lines 249-258: the course directory, then get_course_lessons is entered
BeginCourse ==
    /\ pc = "courses"
    /\ ci <= Len(course_ids)
    /\ dirs' = dirs \cup { Dir(course_id, << >>) }
    /\ trace' = trace \o << Ev("mkdir_course", 0, 0, TRUE, << >>) >>
    /\ pc' = "lessons_page"
    /\ page' = 1
    /\ all_results' = << >>
    /\ li' = 0
    /\ lessons' = << >>
    /\ UNCHANGED << course_ids, ci, content_items, k, j, urls, u, asset_counter,
                    files, lim, endpoint, html_elems, call >>

\* the loop of line 249 is exhausted
Finish ==
    /\ pc = "courses"
    /\ ci > Len(course_ids)
    /\ pc' = "done"
    /\ UNCHANGED << course_ids, ci, lessons, li, page, all_results, content_items,
                    k, j, urls, u, asset_counter, dirs, files, trace, lim,
                    endpoint, html_elems, call >>

\* get_course_lessons (lines 94-105): one page request of the listing
LessonsPage ==
    /\ pc = "lessons_page"
    /\ \E r \in PageResponses(page, lim.lesson_pages, Len(all_results),
                              [n \in 1..lim.lessons |-> LessonAt(n)]) :
         LET req == Ev("get_lessons_page", page, 0, r.ok, << >>)
             st  == PageStep(all_results, r.data)
         IN IF ~r.ok
            THEN \* _make_request raises, line 105 raises the course's error
                 /\ ExceptCourse(<< req, Ev("could_not_fetch_lessons", 0, 0, FALSE, << >>) >>)
                 /\ UNCHANGED << page, all_results, lessons, li >>
            ELSE IF st.more
            THEN /\ page' = page + 1
                 /\ all_results' = st.all_results
                 /\ trace' = trace \o << req >>
                 /\ UNCHANGED << pc, ci, lessons, li >>
            ELSE IF st.all_results = << >>
            THEN \* lines 260-262
                 /\ trace' = trace \o << req, Ev("no_lessons", 0, 0, TRUE, << >>) >>
                 /\ ci' = ci + 1
                 /\ pc' = "courses"
                 /\ all_results' = st.all_results
                 /\ UNCHANGED << page, lessons, li >>
            ELSE /\ trace' = trace \o << req >>
                 /\ lessons' = st.all_results
                 /\ all_results' = st.all_results
                 /\ li' = 1
                 /\ pc' = "lesson"
                 /\ UNCHANGED << page, ci >>
    /\ UNCHANGED << course_ids, content_items, k, j, urls, u, asset_counter,
                    dirs, files, lim, endpoint, html_elems, call >>

\* line 270: every lesson of the course is done
CourseCompleted ==
    /\ pc = "lesson"
    /\ li > Len(lessons)
    /\ trace' = trace \o << Ev("completed_course", 0, 0, TRUE, << >>) >>
    /\ ci' = ci + 1
    /\ pc' = "courses"
    /\ UNCHANGED << course_ids, lessons, li, page, all_results, content_items,
                    k, j, urls, u, asset_counter, dirs, files, lim, endpoint,
                    html_elems, call >>

(***************************************************************************)
(* download_lesson_content, lines 152-205.                                  *)
(***************************************************************************)
\* download_lesson_content catching the error: only the lesson is skipped
DetailsFailedSkipsLesson(events) ==
    /\ trace' = trace \o events \o << Ev("lesson_failed", 0, 0, FALSE, << >>) >>
    /\ li' = li + 1
    /\ pc' = "lesson"
    /\ UNCHANGED ci

\* get_lesson_details raised (line 165): nothing catches the error before
\* the except clause of download_courses
DetailsFailed(events) ==
    /\ ExceptCourse(events)
    /\ UNCHANGED li

\* lines 154-168: the lesson directory, the metadata request, the metadata file
BeginLesson ==
    /\ pc = "lesson"
    /\ li <= Len(lessons)
    /\ dirs' = dirs \cup { Dir(course_id, lesson_dir) }
    /\ \E ok \in BOOLEAN :
         LET mk  == Ev("mkdir_lesson", 0, 0, TRUE, lesson_dir)
             req == Ev("get_lesson_details", 0, 0, ok, << >>)
         IN IF ~ok
            THEN /\ DetailsFailed(<< mk, req >>)
                 /\ UNCHANGED << files, page, all_results >>
            ELSE /\ files' = WriteFile(files, File(course_id, lesson_dir, F_metadata, TRUE))
                 /\ trace' = trace \o << mk, req, Ev("write", 0, 0, TRUE, F_metadata) >>
                 /\ pc' = "content_page"
                 /\ page' = 1
                 /\ all_results' = << >>
                 /\ UNCHANGED << ci, li >>
    /\ UNCHANGED << course_ids, lessons, content_items, k, j, urls, u,
                    asset_counter, lim, endpoint, html_elems, call >>

\* the i-th content item of the current lesson
ContentItemAt(i) == ItemAt(lim.pool, (li - 1) + i)

\* get_lesson_content without its except clause: the error leaves the lesson
ContentFetchRaises(req) ==
    /\ ExceptCourse(<< req >>)
    /\ UNCHANGED << content_items, k >>

\* lines 118-120: the except clause of get_lesson_content returns []
ContentFetchFailed(req) ==
    /\ content_items' = << >>
    /\ trace' = trace \o << req, Ev("could_not_fetch_content", 0, 0, FALSE, << >>) >>
    /\ pc' = "direct"
    /\ k' = 1
    /\ UNCHANGED ci

\* line 172 asking for more than one item
ShouldWriteSeveralItems(items) == Len(items) > 1

\* line 172
ShouldWriteContentItems(items) == items # << >>

\* get_lesson_content (lines 113-120) and lines 171-175
ContentPage ==
    /\ pc = "content_page"
    /\ \E r \in PageResponses(page, lim.content_pages, Len(all_results),
                              [n \in 1..lim.items |-> ContentItemAt(n)]) :
         LET req == Ev("get_content_page", page, 0, r.ok, << >>)
             st  == PageStep(all_results, r.data)
         IN IF ~r.ok
            THEN /\ ContentFetchFailed(req)
                 /\ UNCHANGED << page, all_results, files >>
            ELSE IF st.more
            THEN /\ page' = page + 1
                 /\ all_results' = st.all_results
                 /\ trace' = trace \o << req >>
                 /\ UNCHANGED << pc, ci, content_items, k, files >>
            ELSE /\ content_items' = st.all_results
                 /\ all_results' = st.all_results
                 /\ IF ShouldWriteContentItems(st.all_results)
                    THEN /\ files' = WriteFile(files,
                                       File(course_id, lesson_dir, F_content_items, TRUE))
                         /\ trace' = trace \o << req, Ev("write", 0, 0, TRUE, F_content_items) >>
                    ELSE /\ trace' = trace \o << req >>
                         /\ UNCHANGED files
                 /\ pc' = "direct"
                 /\ k' = 1
                 /\ UNCHANGED << page, ci >>
    /\ UNCHANGED << course_ids, lessons, li, j, urls, u, asset_counter, dirs,
                    lim, endpoint, html_elems, call >>

\* lines 179-181: the direct resource URL of an item, empty when there is none
DirectUrl(content_item) ==
    IF "url" \in content_item.keys \/ "file_url" \in content_item.keys
    THEN IF Get(content_item, "url") # << >> THEN Get(content_item, "url")
         ELSE Get(content_item, "file_url")
    ELSE << >>

\* the requests and writes of one _download_file call, as history
DownloadEvents(op, i, n, filename_prefix, r) ==
    << Ev(op, i, n, r.complete, filename_prefix) >>
    \o (IF r.opened THEN << Ev("write", i, n, r.complete, r.filename) >> ELSE << >>)

\* the output tree after one _download_file call
Downloaded(fs, r) ==
    IF r.opened THEN WriteFile(fs, File(course_id, lesson_dir, r.filename, r.complete))
    ELSE fs

\* line 182, for the item at position k (enumerate counts from 0); an
\* exception that left _download_file would leave download_lesson_content
DirectDownload ==
    /\ pc = "direct"
    /\ k <= Len(content_items)
    /\ DirectUrl(content_items[k]) # << >>
    /\ \E resp \in RunResponses(TRUE, lim.fails) :
         LET filename_prefix == P_content \o IntToStr(k - 1)
             r == _download_file(DirectUrl(content_items[k]), filename_prefix, TRUE, resp)
             events == DownloadEvents("get_content_file", k - 1, 0, filename_prefix, r)
         IN /\ files' = Downloaded(files, r)
            /\ IF r.raised
               THEN /\ ExceptCourse(events)
                    /\ UNCHANGED k
               ELSE /\ trace' = trace \o events
                    /\ k' = k + 1
                    /\ UNCHANGED << pc, ci >>
    /\ UNCHANGED << course_ids, lessons, li, page, all_results, content_items,
                    j, urls, u, asset_counter, dirs, lim, endpoint, html_elems,
                    call >>

\* lines 179-181 find nothing to download
DirectSkip ==
    /\ pc = "direct"
    /\ k <= Len(content_items)
    /\ DirectUrl(content_items[k]) = << >>
    /\ k' = k + 1
    /\ UNCHANGED << pc, course_ids, ci, lessons, li, page, all_results,
                    content_items, j, urls, u, asset_counter, dirs, files, trace,
                    lim, endpoint, html_elems, call >>

\* line 185
DirectDone ==
    /\ pc = "direct"
    /\ k > Len(content_items)
    /\ asset_counter' = 0
    /\ j' = 1
    /\ pc' = "assets_item"
    /\ UNCHANGED << course_ids, ci, lessons, li, page, all_results,
                    content_items, k, urls, u, dirs, files, trace, lim,
                    endpoint, html_elems, call >>

\* lines 187-189
AssetItem ==
    /\ pc = "assets_item"
    /\ j <= Len(content_items)
    /\ LET html_content == Get(content_items[j], "content_html")
       IN urls' = IF html_content # << >> THEN _extract_urls_from_html(html_content)
                  ELSE << >>
    /\ u' = 1
    /\ pc' = "assets_url"
    /\ UNCHANGED << course_ids, ci, lessons, li, page, all_results,
                    content_items, k, j, asset_counter, dirs, files, trace, lim,
                    endpoint, html_elems, call >>

\* lines 193-198
AssetPrefix(url, counter) ==
    LET original_filename == PathName(UrlPath(url))
    IN IF original_filename # << >>
       THEN P_asset \o IntToStr(counter) \o << "_" >> \o original_filename
       ELSE P_asset \o IntToStr(counter)

\* line 201 lost
CounterStuck(counter) == counter

\* line 201
CounterAfter(counter) == counter + 1

\* lines 190-203, for the URL at position u of item j
AssetDownload ==
    /\ pc = "assets_url"
    /\ u <= Len(urls)
    /\ LET failed == Ev("failed_to_download_asset", j - 1, u, FALSE, urls[u])
       IN IF UrlParseFails(urls[u])
          THEN \* urlparse raises, line 203 reports it, nothing is requested
               /\ trace' = trace \o << failed >>
               /\ UNCHANGED << files, asset_counter >>
          ELSE \E resp \in RunResponses(FALSE, lim.fails) :
                 LET filename_prefix == AssetPrefix(urls[u], asset_counter)
                     r == _download_file(urls[u], filename_prefix, FALSE, resp)
                     events == DownloadEvents("get_asset_file", j - 1, u, filename_prefix, r)
                 IN /\ files' = Downloaded(files, r)
                    /\ IF r.raised
                       THEN \* caught at line 202, line 201 is not reached
                            /\ trace' = trace \o events \o << failed >>
                            /\ UNCHANGED asset_counter
                       ELSE /\ trace' = trace \o events
                            /\ asset_counter' = CounterAfter(asset_counter)
    /\ u' = u + 1
    /\ UNCHANGED << pc, course_ids, ci, lessons, li, page, all_results,
                    content_items, k, j, urls, dirs, lim, endpoint, html_elems,
                    call >>

\* the loop of line 190 is exhausted
AssetItemDone ==
    /\ pc = "assets_url"
    /\ u > Len(urls)
    /\ j' = j + 1
    /\ pc' = "assets_item"
    /\ UNCHANGED << course_ids, ci, lessons, li, page, all_results,
                    content_items, k, urls, u, asset_counter, dirs, files, trace,
                    lim, endpoint, html_elems, call >>

\* line 205, and the loop of line 267 goes on
LessonDone ==
    /\ pc = "assets_item"
    /\ j > Len(content_items)
    /\ trace' = trace \o << Ev("lesson_done", 0, 0, TRUE, << >>) >>
    /\ li' = li + 1
    /\ pc' = "lesson"
    /\ UNCHANGED << course_ids, ci, lessons, page, all_results, content_items,
                    k, j, urls, u, asset_counter, dirs, files, lim, endpoint,
                    html_elems, call >>

(***************************************************************************)
(* Runs of download_courses.                                                *)
(***************************************************************************)
InitRun(ids, l) ==
    /\ pc = "courses"
    /\ course_ids = ids
    /\ ci = 1
    /\ lessons = << >>
    /\ li = 0
    /\ page = 1
    /\ all_results = << >>
    /\ content_items = << >>
    /\ k = 1
    /\ j = 1
    /\ urls = << >>
    /\ u = 1
    /\ asset_counter = 0
    /\ dirs = { }
    /\ files = { }
    /\ trace = << >>
    /\ lim = l
    /\ endpoint = << >>
    /\ html_elems = << >>
    /\ call = NoCall

\* any list of courses, each of up to MaxLessons lessons of at most one item
Init ==
    \E ids \in SeqsUpTo(CourseIds, MaxCourses) :
        InitRun(ids, [lessons |-> MaxLessons, lesson_pages |-> MaxPages,
                      items |-> 1, content_pages |-> 1,
                      pool |-> PoolWide, fails |-> { "none", "request" }])

\* one course of up to MaxLessons lessons of at most one item, every listing
\* of up to MaxPages pages
InitCourse ==
    InitRun(<< "c1" >>, [lessons |-> MaxLessons, lesson_pages |-> MaxPages,
                         items |-> 1, content_pages |-> MaxPages,
                         pool |-> PoolWide, fails |-> { "none", "request" }])

\* one course of one lesson of up to MaxItems items
InitLesson ==
    InitRun(<< "c1" >>, [lessons |-> 1, lesson_pages |-> 1,
                         items |-> MaxItems, content_pages |-> MaxPages,
                         pool |-> PoolDeep, fails |-> { "none", "request", "write" }])

Next ==
    \/ BeginCourse
    \/ Finish
    \/ LessonsPage
    \/ CourseCompleted
    \/ BeginLesson
    \/ ContentPage
    \/ DirectDownload
    \/ DirectSkip
    \/ DirectDone
    \/ AssetItem
    \/ AssetDownload
    \/ AssetItemDone
    \/ LessonDone

Spec == Init /\ [][Next]_vars

SpecCourse == InitCourse /\ [][Next]_vars

SpecLesson == InitLesson /\ [][Next]_vars

(***************************************************************************)
(* _get_paginated_results on its own (lines 61-92), against an endpoint    *)
(* that serves a fixed list of pages; a page past the last is an HTTP      *)
(* error.                                                                   *)
(***************************************************************************)
EndpointPages(p) ==
    { FailedPage } \cup
    { [ok |-> TRUE, data |-> Page(fmt, [x \in 1..n |-> << p, x >>], next)] :
        << fmt, n, next >> \in
          { t \in { "results", "list", "object" } \X (0..MaxPerPage) \X BOOLEAN :
              /\ t[1] = "object" => t[2] = 1
              /\ t[1] # "results" => ~t[3] } }

RECURSIVE EndpointsOfLen(_)
EndpointsOfLen(n) ==
    IF n = 0 THEN { << >> }
    ELSE { Append(e, pg) : e \in EndpointsOfLen(n - 1), pg \in EndpointPages(n) }

Endpoints == UNION { EndpointsOfLen(n) : n \in 1..MaxEndpointPages }

Served(p) == IF p \in DOMAIN endpoint THEN endpoint[p] ELSE FailedPage

InitPaginate ==
    /\ pc = "paginate"
    /\ endpoint \in Endpoints
    /\ course_ids = << >>
    /\ ci = 0
    /\ lessons = << >>
    /\ li = 0
    /\ page = 1
    /\ all_results = << >>
    /\ content_items = << >>
    /\ k = 1
    /\ j = 1
    /\ urls = << >>
    /\ u = 1
    /\ asset_counter = 0
    /\ dirs = { }
    /\ files = { }
    /\ trace = << >>
    /\ lim = [lessons |-> 0, lesson_pages |-> 0, items |-> 0, content_pages |-> 0,
              pool |-> << >>, fails |-> { }]
    /\ html_elems = << >>
    /\ call = NoCall

\* one pass of the loop of lines 66-90
PaginateRequest ==
    /\ pc = "paginate"
    /\ LET r  == Served(page)
           st == PageStep(all_results, r.data)
       IN /\ trace' = trace \o << Ev("get_page", page, 0, r.ok, << >>) >>
          /\ IF ~r.ok
             THEN /\ pc' = "raised"
                  /\ UNCHANGED << page, all_results >>
             ELSE IF st.more
             THEN /\ page' = page + 1
                  /\ all_results' = st.all_results
                  /\ UNCHANGED pc
             ELSE /\ all_results' = st.all_results
                  /\ pc' = "returned"
                  /\ UNCHANGED page
    /\ UNCHANGED << course_ids, ci, lessons, li, content_items, k, j, urls, u,
                    asset_counter, dirs, files, lim, endpoint, html_elems, call >>

SpecPaginate == InitPaginate /\ [][PaginateRequest]_vars

(***************************************************************************)
(* _extract_urls_from_html on its own (lines 122-150).                      *)
(***************************************************************************)
InitExtract ==
    /\ pc = "extract"
    /\ html_elems \in Documents
    /\ course_ids = << >>
    /\ ci = 0
    /\ lessons = << >>
    /\ li = 0
    /\ page = 1
    /\ all_results = << >>
    /\ content_items = << >>
    /\ k = 1
    /\ j = 1
    /\ urls = << >>
    /\ u = 1
    /\ asset_counter = 0
    /\ dirs = { }
    /\ files = { }
    /\ trace = << >>
    /\ lim = [lessons |-> 0, lesson_pages |-> 0, items |-> 0, content_pages |-> 0,
              pool |-> << >>, fails |-> { }]
    /\ endpoint = << >>
    /\ call = NoCall

ExtractUrls ==
    /\ pc = "extract"
    /\ urls' = _extract_urls_from_html(RenderAll(html_elems))
    /\ pc' = "extracted"
    /\ UNCHANGED << course_ids, ci, lessons, li, page, all_results, content_items,
                    k, j, u, asset_counter, dirs, files, trace, lim, endpoint,
                    html_elems, call >>

SpecExtract == InitExtract /\ [][ExtractUrls]_vars

(***************************************************************************)
(* _download_file on its own (lines 207-242).                               *)
(***************************************************************************)
U_mp4    == W_http \o << "a","/","v",".","m","p","4" >>
U_dir    == W_https \o << "a","/","d","/" >>
U_query  == W_https \o << "a","/","f","?","v","=","1",".","2" >>
U_signed == W_https \o << "a","/","v",".","m","p","4","?","t","=","x" >>
U_host   == W_https \o << "a",".","b" >>

FileUrls == { U_mp4, U_av, U_a1, U_dir, U_query, U_signed, U_host }

Prefixes == { P_content \o IntToStr(0),
              P_asset \o IntToStr(0) \o << "_","x",".","p","n","g" >> }

InitDownload ==
    /\ pc = "download"
    /\ \E url \in FileUrls, prefix \in Prefixes, use_extension \in BOOLEAN :
         call = [url |-> url, filename_prefix |-> prefix,
                 use_extension |-> use_extension,
                 resp |-> Response("none", FALSE, << >>)]
    /\ course_ids = << "c1" >>
    /\ ci = 1
    /\ lessons = << LessonAt(1) >>
    /\ li = 1
    /\ page = 1
    /\ all_results = << >>
    /\ content_items = << >>
    /\ k = 1
    /\ j = 1
    /\ urls = << >>
    /\ u = 1
    /\ asset_counter = 0
    /\ dirs = { Dir("c1", << >>), Dir("c1", LessonDirName(LessonAt(1))) }
    /\ files = { }
    /\ trace = << >>
    /\ lim = [lessons |-> 0, lesson_pages |-> 0, items |-> 0, content_pages |-> 0,
              pool |-> << >>, fails |-> { }]
    /\ endpoint = << >>
    /\ html_elems = << >>

Download ==
    /\ pc = "download"
    /\ \E resp \in Responses :
         LET r == _download_file(call.url, call.filename_prefix, call.use_extension, resp)
         IN /\ call' = [call EXCEPT !.resp = resp]
            /\ files' = Downloaded(files, r)
            /\ trace' = trace \o DownloadEvents("get_file", 0, 0, call.filename_prefix, r)
            /\ pc' = IF r.raised THEN "raised" ELSE "downloaded"
    /\ UNCHANGED << course_ids, ci, lessons, li, page, all_results, content_items,
                    k, j, urls, u, asset_counter, dirs, lim, endpoint, html_elems >>

SpecDownload == InitDownload /\ [][Download]_vars

(***************************************************************************)
(* Properties.                                                              *)
(***************************************************************************)
Idx == DOMAIN trace

Upto(n) == [x \in 1..n |-> x]

SameLesson(e, f) == e.ci = f.ci /\ e.li = f.li

\* ---------------------------------------------------------------- C2 ----
\* an endpoint of N pages in the {'results', 'next'} layout, every page but
\* the last with a "next" pointer, the last without
NPagesLastWithoutNext(e) ==
    \A p \in DOMAIN e : /\ e[p].ok
                        /\ e[p].data.fmt = "results"
                        /\ e[p].data.next <=> p < Len(e)

RECURSIVE ItemsOfPages(_, _)
ItemsOfPages(e, n) ==
    IF n = 0 THEN << >> ELSE ItemsOfPages(e, n - 1) \o e[n].data.items

RequestedPages == [x \in Idx |-> trace[x].i]

\* the first page without items, the last page when every page has some
FirstEmptyOrLast(e) ==
    IF \E p \in DOMAIN e : e[p].data.items = << >>
    THEN CHOOSE p \in DOMAIN e : /\ e[p].data.items = << >>
                                 /\ \A q \in 1..(p - 1) : e[q].data.items # << >>
    ELSE Len(e)

\* C2 as stated: for an endpoint of N pages whose last page alone has no
\* "next" pointer, _get_paginated_results returns after exactly the requests
\* for pages 1..N, with the items of all N pages in page order.
C2_ExactlyNPages ==
    (NPagesLastWithoutNext(endpoint) /\ pc = "returned") =>
        /\ RequestedPages = Upto(Len(endpoint))
        /\ all_results = ItemsOfPages(endpoint, Len(endpoint))

\* C2 amended: for such an endpoint, with K the first page that has no items
\* (K = N when every page has items), _get_paginated_results never raises,
\* requests the pages 1..K in that order and no other, and returns the items
\* of the pages 1..K in page order.
C2_StopsAtFirstEmptyPage ==
    NPagesLastWithoutNext(endpoint) =>
        LET K == FirstEmptyOrLast(endpoint)
        IN /\ pc # "raised"
           /\ pc = "paginate" => page <= K /\ RequestedPages = Upto(page - 1)
           /\ pc = "returned" => /\ RequestedPages = Upto(K)
                                 /\ all_results = ItemsOfPages(endpoint, K)

\* three pages with items were requested and returned
C2_Witness ==
    /\ NPagesLastWithoutNext(endpoint)
    /\ Len(endpoint) = 3
    /\ \A p \in DOMAIN endpoint : endpoint[p].data.items # << >>
    /\ pc = "returned"
    /\ Len(trace) = 3

\* ---------------------------------------------------------------- C7 ----
SrcKinds == << << "i","m","g" >>, << "v","i","d","e","o" >>, << "a","u","d","i","o" >>,
               << "s","o","u","r","c","e" >>, << "e","m","b","e","d" >>,
               << "i","f","r","a","m","e" >> >>

\* the values of the attribute `name` of element e
RECURSIVE ValuesOf(_, _)
ValuesOf(as, name) ==
    IF as = << >> THEN << >>
    ELSE (IF LowerStr(Head(as).name) = name THEN << Head(as).value >> ELSE << >>)
         \o ValuesOf(Tail(as), name)

EndsInDocExt(v) == \E e \in DocExts : EndsWith(LowerStr(v), << "." >> \o e)

\* in document order, the src of the elements of one kind
RECURSIVE SrcOfKind(_, _)
SrcOfKind(es, kind) ==
    IF es = << >> THEN << >>
    ELSE (IF LowerStr(Head(es).tag) = kind THEN ValuesOf(Head(es).attrs, N_src) ELSE << >>)
         \o SrcOfKind(Tail(es), kind)

\* in document order, the href of the anchors whose target ends in a listed extension
RECURSIVE HrefOfAnchors(_)
HrefOfAnchors(es) ==
    IF es = << >> THEN << >>
    ELSE (IF LowerStr(Head(es).tag) = << "a" >>
          THEN SelectSeq(ValuesOf(Head(es).attrs, N_href), EndsInDocExt) ELSE << >>)
         \o HrefOfAnchors(Tail(es))

BeginsWithHttp(v) ==
    \/ Len(v) >= 7 /\ SubSeq(v, 1, 7) = << "h","t","t","p",":","/","/" >>
    \/ Len(v) >= 8 /\ SubSeq(v, 1, 8) = << "h","t","t","p","s",":","/","/" >>

ExpectedUrls(es) ==
    SelectSeq(Concat([n \in DOMAIN SrcKinds |-> SrcOfKind(es, SrcKinds[n])])
              \o HrefOfAnchors(es),
              BeginsWithHttp)

\* C7: _extract_urls_from_html returns the absolute (http://, https://) URLs
\* among: the src of every img, then of every video, audio, source, embed and
\* iframe element, then the href of every anchor ending in a listed
\* extension; document order within a kind; no other element contributes.
C7_ExtractedUrls ==
    pc = "extracted" => urls = ExpectedUrls(html_elems)

\* an <area> element alone, its href ending in .pdf, gave a URL
C7_FailingInput ==
    /\ pc = "extracted"
    /\ Len(html_elems) = 1
    /\ html_elems[1].tag = << "a","r","e","a" >>
    /\ urls = << html_elems[1].attrs[1].value >>

\* ---------------------------------------------------------------- C8 ----
\* the extension of the trailing segment of the URL's path, else the one the
\* content type gives, else none
ExpectedExtension(url, resp) ==
    LET segment == LastPiece(UrlPath(url), "/")
        ct == LowerStr(resp.ctype)
    IN IF \E n \in DOMAIN segment : segment[n] = "."
       THEN << "." >> \o LastPiece(segment, ".")
       ELSE IF ~resp.has_ctype THEN << >>
       ELSE IF StartsWith(ct, << "v","i","d","e","o","/" >>) THEN << ".","m","p","4" >>
       ELSE IF Contains(ct, << "p","d","f" >>) THEN << ".","p","d","f" >>
       ELSE IF StartsWith(ct, << "i","m","a","g","e","/" >>) THEN << ".","j","p","g" >>
       ELSE << >>

\* C8: with extension inference the file written by _download_file is named
\* prefix + (extension of the URL's trailing path segment, else extension of
\* the content type, else nothing); without it, the prefix unchanged.
C8_FileName ==
    pc = "downloaded" =>
        \A f \in files :
            f.name = IF call.use_extension
                     THEN call.filename_prefix \o ExpectedExtension(call.url, call.resp)
                     ELSE call.filename_prefix

\* the URL with a dot only in its query string got the extension ".2"
C8_FailingInput ==
    /\ pc = "downloaded"
    /\ call.url = U_query
    /\ call.use_extension
    /\ \E f \in files : f.name = call.filename_prefix \o << ".","2" >>

\* ---------------------------------------------------------------- C1 ----
IsCourseStart(e) == e.op = "mkdir_course"

\* the number of courses whose try block was entered
CoursesStarted == IF pc \in { "courses", "done" } THEN ci - 1 ELSE ci

OccursOnce(c) == Cardinality({ n \in DOMAIN course_ids : course_ids[n] = c }) = 1

\* C1: the courses are attempted once each, in input order, and all of them
\* by the end of the run; a failed page request of a course's lesson list is
\* followed by the error that names the course, no lesson directory is made
\* in that attempt, and every later course is still attempted.
C1_EveryCourseAttempted ==
    LET started == SelectSeq(trace, IsCourseStart)
    IN /\ Len(started) = CoursesStarted
       /\ \A n \in DOMAIN started : started[n].ci = n /\ started[n].course = course_ids[n]
       /\ pc = "done" => Len(started) = Len(course_ids)
       /\ \A x \in Idx :
            (trace[x].op = "get_lessons_page" /\ ~trace[x].ok) =>
              /\ x + 1 \in Idx
              /\ trace[x + 1].op = "could_not_fetch_lessons"
              /\ trace[x + 1].course = course_ids[trace[x].ci]
              /\ \A y \in Idx : trace[y].ci = trace[x].ci => trace[y].op # "mkdir_lesson"
              /\ OccursOnce(trace[x].course) =>
                   \A d \in dirs : d.course = trace[x].course => d.dir = << >>
              /\ pc = "done" =>
                   \A c \in (trace[x].ci + 1)..Len(course_ids) :
                     \E y \in Idx : /\ y > x
                                    /\ trace[y].op = "get_lessons_page"
                                    /\ trace[y].ci = c

\* the first course failed on its second page, the second one got a lesson
C1_Witness ==
    /\ pc = "done"
    /\ Len(course_ids) = 2
    /\ \E x \in Idx : /\ trace[x].op = "get_lessons_page" /\ ~trace[x].ok
                      /\ trace[x].ci = 1 /\ trace[x].i = 2
    /\ \E y \in Idx : trace[y].op = "lesson_done" /\ trace[y].ci = 2

\* ---------------------------------------------------------------- C3 ----
IsDownload(e) == e.op \in { "get_content_file", "get_asset_file" }

\* the URLs embedded in the item at position n of the current lesson
EmbeddedUrls(n) ==
    LET html_content == Get(content_items[n], "content_html")
    IN IF html_content = << >> THEN << >> ELSE _extract_urls_from_html(html_content)

\* C3: a failed download never ends the lesson. No error leaves
\* download_lesson_content because of a download; when the lesson is done,
\* every direct URL and every embedded URL of every item was requested
\* (or, if urlparse rejects it, reported), every download that went well left
\* its complete file, and lesson_metadata.json and content_items.json are
\* still there.
C3_FailuresAreIsolated ==
    /\ \A x \in Idx :
         trace[x].op = "error_processing_course" =>
           /\ x > 1
           /\ trace[x - 1].op \in { "get_lesson_details", "could_not_fetch_lessons" }
    /\ \A x \in Idx :
         (trace[x].op = "write" /\ trace[x].ok) =>
           File(trace[x].course, trace[x].dir, trace[x].name, TRUE) \in files
    /\ \A z \in Idx :
         trace[z].op = "lesson_done" =>
           /\ \A n \in DOMAIN content_items :
                /\ DirectUrl(content_items[n]) # << >> =>
                     \E x \in 1..z : /\ trace[x].op = "get_content_file"
                                     /\ trace[x].i = n - 1
                /\ \A m \in DOMAIN EmbeddedUrls(n) :
                     \E x \in 1..z :
                       /\ trace[x].i = n - 1 /\ trace[x].u = m
                       /\ trace[x].op = IF UrlParseFails(EmbeddedUrls(n)[m])
                                        THEN "failed_to_download_asset"
                                        ELSE "get_asset_file"
           /\ File(trace[z].course, trace[z].dir, F_metadata, TRUE) \in files
           /\ content_items # << >> =>
                File(trace[z].course, trace[z].dir, F_content_items, TRUE) \in files

\* a direct download and an asset download failed, a later asset was written
C3_Witness ==
    /\ pc = "done"
    /\ \E x, y, z \in Idx :
         /\ x < y /\ y < z
         /\ trace[x].op = "get_content_file" /\ ~trace[x].ok
         /\ trace[y].op = "get_asset_file" /\ ~trace[y].ok
         /\ trace[z].op = "write" /\ trace[z].ok /\ trace[z].u > 0
    /\ \E w \in Idx : trace[w].op = "lesson_done"

\* ---------------------------------------------------------------- C4 ----
\* C4: after a failed page request of a lesson's content items, the lesson
\* goes on with no content items: lesson_metadata.json is there,
\* content_items.json is not written, no download is requested for the
\* lesson, the lesson ends normally and the next lesson of the course is
\* taken up.
C4_ContentFailureIsNotFatal ==
    \A x \in Idx :
      (trace[x].op = "get_content_page" /\ ~trace[x].ok) =>
        LET e == trace[x]
        IN /\ \E y \in 1..x : /\ trace[y].op = "write" /\ trace[y].name = F_metadata
                              /\ SameLesson(trace[y], e)
           /\ File(e.course, e.dir, F_metadata, TRUE) \in files
           /\ \A y \in Idx :
                SameLesson(trace[y], e) =>
                  /\ ~(trace[y].op = "write" /\ trace[y].name = F_content_items)
                  /\ ~IsDownload(trace[y])
                  /\ trace[y].op # "error_processing_course"
           /\ \A f \in files : ~(f.course = e.course /\ f.dir = e.dir /\ f.name # F_metadata)
           /\ \/ /\ ci = e.ci /\ li = e.li
                 /\ pc \in { "direct", "assets_item" }
                 /\ content_items = << >>
              \/ /\ \E y \in Idx : /\ y > x /\ trace[y].op = "lesson_done"
                                   /\ SameLesson(trace[y], e)
                 /\ e.li < Len(lessons) =>
                      \/ ci = e.ci /\ li = e.li + 1 /\ pc = "lesson"
                      \/ \E y \in Idx : /\ y > x /\ trace[y].op = "mkdir_lesson"
                                        /\ trace[y].ci = e.ci /\ trace[y].li = e.li + 1

\* the second page of the first lesson's items failed, the second lesson began
C4_Witness ==
    /\ \E x \in Idx : /\ trace[x].op = "get_content_page" /\ ~trace[x].ok
                      /\ trace[x].i = 2 /\ trace[x].li = 1
    /\ \E y \in Idx : trace[y].op = "mkdir_lesson" /\ trace[y].li = 2

\* ---------------------------------------------------------------- C5 ----
\* C5: every download request of a lesson comes after the writes of the
\* lesson's lesson_metadata.json and content_items.json, and both files are
\* in the lesson's directory.
C5_MetadataBeforeAssets ==
    \A x \in Idx :
      IsDownload(trace[x]) =>
        /\ \E y \in 1..(x - 1) : /\ trace[y].op = "write" /\ trace[y].name = F_metadata
                                 /\ SameLesson(trace[y], trace[x])
        /\ \E y \in 1..(x - 1) : /\ trace[y].op = "write" /\ trace[y].name = F_content_items
                                 /\ SameLesson(trace[y], trace[x])
        /\ File(trace[x].course, trace[x].dir, F_metadata, TRUE) \in files
        /\ File(trace[x].course, trace[x].dir, F_content_items, TRUE) \in files

\* a lesson of one item: a direct download and an asset download were made
C5_Witness ==
    /\ Len(content_items) = 1
    /\ \E x, y \in Idx : trace[x].op = "get_content_file" /\ trace[y].op = "get_asset_file"

\* ---------------------------------------------------------------- C6 ----
IsAssetAttempt(e) == e.op = "get_asset_file"

\* asset_<counter>_<basename>, asset_<counter> without a basename
ExpectedAssetName(url, counter) ==
    LET basename == PathName(UrlPath(url))
    IN << "a","s","s","e","t","_" >> \o IntToStr(counter)
       \o (IF basename = << >> THEN << >> ELSE << "_" >> \o basename)

\* C6: within a lesson the n-th asset download attempted (n = 0, 1, ...),
\* failed or not, is named with counter n, the counter is the number of
\* attempts made so far, and no two attempts have the same name.
C6_AssetCounter ==
    LET attempts == SelectSeq(trace, IsAssetAttempt)
    IN /\ pc \in { "assets_item", "assets_url" } => asset_counter = Len(attempts)
       /\ \A n \in DOMAIN attempts :
            attempts[n].name =
              ExpectedAssetName(EmbeddedUrls(attempts[n].i + 1)[attempts[n].u], n - 1)
       /\ \A n, m \in DOMAIN attempts : n # m => attempts[n].name # attempts[m].name

\* three attempts with the basename 1.png, in two items, the first one failed
C6_Witness ==
    LET attempts == SelectSeq(trace, IsAssetAttempt)
    IN /\ Len(attempts) = 3
       /\ ~attempts[1].ok
       /\ attempts[3].ok
       /\ attempts[1].i # attempts[3].i
       /\ \A n \in 1..3 : EndsWith(attempts[n].name, << "_","1",".","p","n","g" >>)

\* ---------------------------------------------------------------- C9 ----
IsRequest(e) ==
    e.op \in { "get_lessons_page", "get_lesson_details", "get_content_page",
               "get_content_file", "get_asset_file" }

SameOperation(e, f) ==
    /\ e.op = f.op /\ e.ci = f.ci /\ e.li = f.li /\ e.i = f.i /\ e.u = f.u

\* C9: no request of the run is issued twice: a page of a listing, the
\* metadata of a lesson, the download of one reference of one item.
C9_NothingIsRetried ==
    \A x, y \in Idx :
      (x < y /\ IsRequest(trace[x])) => ~SameOperation(trace[x], trace[y])

\* a run in which a listing page, a metadata request and a download failed
C9_Witness ==
    /\ pc = "done"
    /\ \E x, y, z \in Idx :
         /\ trace[x].op = "get_lessons_page" /\ ~trace[x].ok
         /\ trace[y].op = "get_lesson_details" /\ ~trace[y].ok
         /\ IsDownload(trace[z]) /\ ~trace[z].ok

\* --------------------------------------------------------------- C10 ----
\* C10: after a failed metadata request of a lesson, the lesson's directory
\* exists, no lesson_metadata.json is written for the lesson, nothing is done
\* for the later lessons of the course, the files of the earlier lessons are
\* kept, and the run goes on with the next course.
C10_DetailsFailureEndsCourse ==
    \A x \in Idx :
      (trace[x].op = "get_lesson_details" /\ ~trace[x].ok) =>
        LET e == trace[x]
        IN /\ x > 1 /\ trace[x - 1].op = "mkdir_lesson" /\ SameLesson(trace[x - 1], e)
           /\ Dir(e.course, e.dir) \in dirs
           /\ \A y \in Idx :
                SameLesson(trace[y], e) => trace[y].op # "write"
           /\ OccursOnce(e.course) =>
                \A f \in files : ~(f.course = e.course /\ f.dir = e.dir)
           /\ \A y \in Idx :
                trace[y].ci = e.ci =>
                  /\ y <= x + 1
                  /\ trace[y].op = "mkdir_lesson" => trace[y].li <= e.li
           /\ \A y \in 1..x :
                (trace[y].op = "write" /\ trace[y].ci = e.ci) =>
                  \E f \in files : /\ f.course = e.course /\ f.dir = trace[y].dir
                                   /\ f.name = trace[y].name
           /\ x + 1 \in Idx /\ trace[x + 1].op = "error_processing_course"
           /\ \/ e.ci = Len(course_ids)
              \/ ci = e.ci + 1 /\ pc = "courses"
              \/ \E y \in Idx : /\ y > x /\ trace[y].op = "mkdir_course"
                                /\ trace[y].ci = e.ci + 1

\* the second lesson of the first course failed, the second course was done
C10_Witness ==
    /\ pc = "done"
    /\ \E x \in Idx : /\ trace[x].op = "get_lesson_details" /\ ~trace[x].ok
                      /\ trace[x].ci = 1 /\ trace[x].li = 2
    /\ \E y \in Idx : /\ trace[y].op = "write" /\ trace[y].ci = 1 /\ trace[y].li = 1
                      /\ trace[y].name # F_metadata
    /\ \E z \in Idx : trace[z].op = "completed_course" /\ trace[z].ci = 2

=============================================================================
